---- MODULE Spec2Model ----
(***************************************************************************)
(* A model of src/app.js of recipe-card-generator: the recipe extraction   *)
(* core (parseRecipe, extractJsonLdRecipe, normalizeRecipe,                *)
(* extractHtmlRecipe) and the UI handler around it (fetchRecipe).          *)
(*                                                                         *)
(* JavaScript values are tagged records [t |-> tag, v |-> payload]; the    *)
(* tag decides the type of the payload, so two values are always compared  *)
(* tag first.  A text value is a sequence of one-character strings.        *)
(***************************************************************************)
EXTENDS Naturals, Sequences, FiniteSets, TLC

VARIABLES
    data,           \* normalizeRecipe: the record it is called with
    res,            \* normalizeRecipe: what the call produced
    doc,            \* parseRecipe: the parsed document
    pc,             \* parseRecipe: which return statement was taken
    title,          \* extractHtmlRecipe: local title
    ingredients,    \* extractHtmlRecipe: local ingredients
    instructions,   \* extractHtmlRecipe: local instructions
    out,            \* parseRecipe: the returned value
    urlValue,       \* urlInput.value
    btnDisabled,    \* fetchBtn.disabled
    loadingShown,   \* loadingDiv.style.display = 'block'
    errorShown,     \* errorDiv.style.display = 'block'
    cardVisible,    \* recipeCard has class 'visible'
    shownFor,       \* the URL whose recipe displayRecipe rendered last
    pending,        \* fetchRecipe invocations between reset and finally
    lastSubmitted   \* the URL of the most recent invocation that passed validation

normVars == <<data, res>>
parseVars == <<doc, pc, title, ingredients, instructions, out>>
uiVars == <<urlValue, btnDisabled, loadingShown, errorShown, cardVisible,
            shownFor, pending, lastSubmitted>>
vars == <<normVars, parseVars, uiVars>>

---------------------------------------------------------------------------
(* Bounds of the model.                                                    *)

MaxLen == 4
MaxItems == 2
MaxScripts == 2
MaxElems == 3
MaxPending == 2

---------------------------------------------------------------------------
(* JavaScript values.                                                      *)

Absent == [t |-> "undefined", v |-> <<>>]
Null == [t |-> "null", v |-> <<>>]
Throw == [t |-> "throw", v |-> <<>>]
Str(s) == [t |-> "str", v |-> s]
Num(n) == [t |-> "num", v |-> n]
Arr(a) == [t |-> "arr", v |-> a]
Obj(o) == [t |-> "obj", v |-> o]

\* An object with none of the keys the program reads.
EmptyObj ==
    [graph |-> Absent, type |-> Absent, name |-> Absent,
     recipeIngredient |-> Absent, recipeInstructions |-> Absent,
     text |-> Absent, itemListElement |-> Absent]

\* JavaScript truthiness (the test of `if (x)` and of `x || y`).
Truthy(x) ==
    CASE x.t = "undefined" -> FALSE
      [] x.t = "null" -> FALSE
      [] x.t = "bool" -> x.v
      [] x.t = "num" -> x.v # 0
      [] x.t = "str" -> Len(x.v) > 0
      [] OTHER -> TRUE

\* x[key]: a TypeError on null and undefined, undefined on a primitive or a list.
Get(x, key) ==
    CASE x.t \in {"undefined", "null"} -> Throw
      [] x.t = "obj" -> x.v[key]
      [] OTHER -> Absent

IsStr(x) == x.t = "str"
IsArr(x) == x.t = "arr"

\* a || b
OrElse(a, b) == IF Truthy(a) THEN a ELSE b

---------------------------------------------------------------------------
(* Text: the characters the program's regular expressions tell apart.      *)

Chars == {"a", " ", "\n", ".", "<", ">"}

\* \s of the regular expressions, and the characters trim() removes.
IsWs(c) == c \in {" ", "\n"}

\* The sequences over S of length at most n.
SeqsUpTo(S, n) == UNION {[1..k -> S] : k \in 0..n}

RECURSIVE TrimLeft(_)
TrimLeft(s) ==
    IF s # <<>> /\ IsWs(Head(s)) THEN TrimLeft(Tail(s)) ELSE s

RECURSIVE TrimRight(_)
TrimRight(s) ==
    IF s # <<>> /\ IsWs(s[Len(s)]) THEN TrimRight(SubSeq(s, 1, Len(s) - 1)) ELSE s

\* String.prototype.trim
Trim(s) == TrimRight(TrimLeft(s))

\* The first index after the run of whitespace that starts at i.
RECURSIVE WsRunEnd(_, _)
WsRunEnd(s, i) ==
    IF i <= Len(s) /\ IsWs(s[i]) THEN WsRunEnd(s, i + 1) ELSE i

\* The first index after the run of newlines that starts at i.
RECURSIVE NlRunEnd(_, _)
NlRunEnd(s, i) ==
    IF i <= Len(s) /\ s[i] = "\n" THEN NlRunEnd(s, i + 1) ELSE i

\* /(?:\.\s+|\n+)/ matched at position q: the index after the match, 0 for none.
SeparatorEnd(s, q) ==
    IF s[q] = "." /\ q + 1 <= Len(s) /\ IsWs(s[q + 1]) THEN WsRunEnd(s, q + 1)
    ELSE IF s[q] = "\n" THEN NlRunEnd(s, q)
    ELSE 0

\* String.prototype.split with that separator: p starts the fragment, q scans.
RECURSIVE SplitFrom(_, _, _)
SplitFrom(s, p, q) ==
    IF q > Len(s) THEN <<SubSeq(s, p, Len(s))>>
    ELSE LET e == SeparatorEnd(s, q)
         IN IF e = 0 THEN SplitFrom(s, p, q + 1)
            ELSE <<SubSeq(s, p, q - 1)>> \o SplitFrom(s, e, e)

SplitSteps(s) == SplitFrom(s, 1, 1)

\* replace(/<[^>]*>/g, ''): from a "<" to the first ">" after it.
RECURSIVE StripTagsFrom(_, _)
StripTagsFrom(s, i) ==
    IF i > Len(s) THEN <<>>
    ELSE IF s[i] = "<" /\ \E j \in (i + 1)..Len(s) : s[j] = ">"
         THEN LET j == CHOOSE j \in (i + 1)..Len(s) :
                           s[j] = ">" /\ \A k \in (i + 1)..(j - 1) : s[k] # ">"
              IN StripTagsFrom(s, j + 1)
         ELSE <<s[i]>> \o StripTagsFrom(s, i + 1)

StripTags(s) == StripTagsFrom(s, 1)

\* replace(/\s+/g, ' ')
RECURSIVE CollapseWsFrom(_, _)
CollapseWsFrom(s, i) ==
    IF i > Len(s) THEN <<>>
    ELSE IF IsWs(s[i]) THEN <<" ">> \o CollapseWsFrom(s, WsRunEnd(s, i))
         ELSE <<s[i]>> \o CollapseWsFrom(s, i + 1)

CollapseWs(s) == CollapseWsFrom(s, 1)

\* inst.replace(/<[^>]*>/g, '').replace(/\s+/g, ' ').trim()
CleanStep(s) == Trim(CollapseWs(StripTags(s)))

---------------------------------------------------------------------------
(* normalizeRecipe.                                                        *)

T_Recipe == <<"R", "e", "c", "i", "p", "e">>
T_HowToStep == <<"H", "o", "w", "T", "o", "S", "t", "e", "p">>
T_HowToSection == <<"H", "o", "w", "T", "o", "S", "e", "c", "t", "i", "o", "n">>
T_Untitled ==
    <<"U", "n", "t", "i", "t", "l", "e", "d", " ", "R", "e", "c", "i", "p", "e">>
T_ObjectObject ==
    <<"[", "o", "b", "j", "e", "c", "t", " ", "O", "b", "j", "e", "c", "t", "]">>

Digits == <<"0", "1", "2", "3", "4", "5", "6", "7", "8", "9">>

\* The text Array.prototype.join makes of one element.
RECURSIVE ToStr(_)
RECURSIVE JoinWith(_, _)
ToStr(x) ==
    CASE x.t = "str" -> x.v
      [] x.t = "num" -> <<Digits[x.v + 1]>>
      [] x.t = "bool" -> IF x.v THEN <<"t", "r", "u", "e">>
                         ELSE <<"f", "a", "l", "s", "e">>
      [] x.t = "arr" -> JoinWith(x.v, <<",">>)
      [] x.t = "obj" -> T_ObjectObject
      [] OTHER -> <<>>

\* Array.prototype.join
JoinWith(items, sep) ==
    IF items = <<>> THEN <<>>
    ELSE IF Len(items) = 1 THEN ToStr(items[1])
    ELSE ToStr(items[1]) \o sep \o JoinWith(Tail(items), sep)

\* The callback of itemListElement.map: one step of a section.
ResolveStep(step) ==
    IF IsStr(step) THEN step
    ELSE IF Get(step, "text") = Throw THEN Throw
    ELSE OrElse(OrElse(Get(step, "text"), Get(step, "name")), Str(<<>>))

\* item.itemListElement.map(...).join(' '); a value without map is a TypeError.
ResolveSection(item) ==
    LET list == Get(item, "itemListElement")
        steps == [i \in 1..Len(list.v) |-> ResolveStep(list.v[i])]
    IN IF ~IsArr(list) THEN Throw
       ELSE IF \E i \in 1..Len(steps) : steps[i] = Throw THEN Throw
       ELSE Str(JoinWith(steps, <<" ">>))

\* The callback of recipeInstructions.map: one item of the list.
ResolveItem(item) ==
    IF IsStr(item) THEN item
    ELSE IF Get(item, "text") = Throw THEN Throw
    ELSE IF Truthy(Get(item, "text")) THEN Get(item, "text")
    ELSE IF Truthy(Get(item, "name")) THEN Get(item, "name")
    ELSE IF Get(item, "type") = Str(T_HowToStep) THEN Str(<<>>)
    ELSE IF Get(item, "type") = Str(T_HowToSection)
            /\ Truthy(Get(item, "itemListElement"))
         THEN ResolveSection(item)
    ELSE Str(<<>>)

\* filter(s => s.length > 0): only a text and a list have a length.
HasLength(s) == s.t \in {"str", "arr"} /\ Len(s.v) > 0

\* filter(s => s.trim().length > 0)
NotBlank(s) == Trim(s.v) # <<>>

\* The instructions before the clean-up: Arr(list), or Throw.
RawInstructions(ri) ==
    IF ~Truthy(ri) THEN Arr(<<>>)
    ELSE IF IsStr(ri)
         THEN LET parts == SplitSteps(ri.v)
              IN Arr(SelectSeq([i \in 1..Len(parts) |-> Str(parts[i])], NotBlank))
    ELSE IF IsArr(ri)
         THEN LET mapped == [i \in 1..Len(ri.v) |-> ResolveItem(ri.v[i])]
              IN IF \E i \in 1..Len(mapped) : mapped[i] = Throw THEN Throw
                 ELSE Arr(SelectSeq(mapped, HasLength))
    ELSE Arr(<<>>)

\* instructions.map(inst => inst.replace(...)...): replace is a method of text only.
CleanInstructions(raw) ==
    IF raw = Throw THEN Throw
    ELSE IF \E i \in 1..Len(raw.v) : ~IsStr(raw.v[i]) THEN Throw
    ELSE Arr([i \in 1..Len(raw.v) |-> Str(CleanStep(raw.v[i].v))])

\* data.name || 'Untitled Recipe'
RecipeTitle(d) == OrElse(Get(d, "name"), Str(T_Untitled))

RecipeIngredients(d) ==
    LET ri == Get(d, "recipeIngredient")
    IN IF Truthy(ri) THEN (IF IsArr(ri) THEN ri.v ELSE <<ri>>) ELSE <<>>

Recipe(t, ing, ins) ==
    [t |-> "recipe", v |-> [title |-> t, ingredients |-> ing, instructions |-> ins]]

IsRecipe(r) == r.t = "recipe"

normalizeRecipe(d) ==
    LET cleaned == CleanInstructions(RawInstructions(Get(d, "recipeInstructions")))
    IN IF cleaned = Throw THEN Throw
       ELSE Recipe(RecipeTitle(d), RecipeIngredients(d), cleaned.v)

---------------------------------------------------------------------------
(* extractJsonLdRecipe.  A script is the decoded value of its text, or     *)
(* BadJson for a text JSON.parse rejects.                                  *)

BadJson == [t |-> "badjson", v |-> <<>>]

\* JSON.parse(script.textContent)
JsonParse(script) == IF script = BadJson THEN Throw ELSE script

\* @type === 'Recipe' || (Array.isArray(@type) && @type.includes('Recipe'))
IsRecipeType(ty) ==
    \/ ty = Str(T_Recipe)
    \/ IsArr(ty) /\ \E i \in 1..Len(ty.v) : ty.v[i] = Str(T_Recipe)

\* data.find(item => ...): the first Recipe-typed item, undefined for none; the
\* callback reads item['@type'], a TypeError on a null item.
RECURSIVE FindRecipe(_, _)
FindRecipe(items, i) ==
    IF i > Len(items) THEN Absent
    ELSE LET ty == Get(items[i], "type")
         IN IF ty = Throw THEN Throw
            ELSE IF IsRecipeType(ty) THEN items[i]
            ELSE FindRecipe(items, i + 1)

\* The body of the try block for one script: a Recipe, Absent when the block
\* ends without a return, Throw when a statement of it throws.
TryScript(script) ==
    LET parsed == JsonParse(script)
        graph == Get(parsed, "graph")
        d == IF Truthy(graph) THEN graph ELSE parsed
        found == FindRecipe(d.v, 1)
    IN IF parsed = Throw \/ graph = Throw THEN Throw
       ELSE IF IsArr(d)
            THEN IF found = Throw THEN Throw
                 ELSE IF Truthy(found) THEN normalizeRecipe(found)
                 ELSE Absent
       ELSE IF IsRecipeType(Get(d, "type")) THEN normalizeRecipe(d)
       ELSE Absent

RECURSIVE ScanScripts(_, _)

\* A catch block that returns null: the scan ends at the failing script.
CatchAborts(scripts, i) == Null

\* No catch block: the exception leaves extractJsonLdRecipe.
CatchRethrows(scripts, i) == Throw

\* catch (e) { /* Continue to next script tag */ }
OnCatch(scripts, i) == ScanScripts(scripts, i + 1)

\* for (const script of scripts) { try { ... } catch (e) { ... } }  return null
ScanScripts(scripts, i) ==
    IF i > Len(scripts) THEN Null
    ELSE LET r == TryScript(scripts[i])
         IN IF r = Throw THEN OnCatch(scripts, i)
            ELSE IF IsRecipe(r) THEN r
            ELSE ScanScripts(scripts, i + 1)

extractJsonLdRecipe(d) == ScanScripts(d.scripts, 1)

---------------------------------------------------------------------------
(* extractHtmlRecipe.  An element is [kind, text]: the kind decides the    *)
(* selectors it matches, text is its textContent.                          *)

titleSelectors ==
    <<"h1.recipe-title", "h1.entry-title", ".recipe-name", "h1[itemprop=name]",
      ".tasty-recipes-title", "h2.wprm-recipe-name", "h1">>

ingredientSelectors ==
    <<"[itemprop=recipeIngredient]", ".ingredient", ".ingredients li",
      ".recipe-ingredients li", ".wprm-recipe-ingredient",
      ".tasty-recipes-ingredients li">>

instructionSelectors ==
    <<"[itemprop=recipeInstructions]", ".instructions li",
      ".recipe-instructions li", ".directions li", ".wprm-recipe-instruction",
      ".tasty-recipes-instructions li">>

\* The selectors an element of each kind matches.
SelectorsOf(kind) ==
    CASE kind = "h1.recipe-title" -> {"h1.recipe-title", "h1"}
      [] kind = "div.recipe-name" -> {".recipe-name"}
      [] kind = "h1" -> {"h1"}
      [] kind = "span[itemprop=recipeIngredient]" -> {"[itemprop=recipeIngredient]"}
      [] kind = "ul.ingredients li" -> {".ingredients li"}
      [] kind = "ol.instructions li" -> {".instructions li"}
      [] kind = "ol.directions li" -> {".directions li"}
      [] OTHER -> {}

\* doc.querySelectorAll(selector): the matching elements in document order.
RECURSIVE QueryAll(_, _)
QueryAll(elems, selector) ==
    IF elems = <<>> THEN <<>>
    ELSE IF selector \in SelectorsOf(Head(elems).kind)
         THEN <<Head(elems)>> \o QueryAll(Tail(elems), selector)
         ELSE QueryAll(Tail(elems), selector)

\* The title loop: querySelector's element counts only with non-blank text.
RECURSIVE TitleFrom(_, _)
TitleFrom(elems, i) ==
    IF i > Len(titleSelectors) THEN <<>>
    ELSE LET m == QueryAll(elems, titleSelectors[i])
         IN IF m # <<>> /\ Trim(m[1].text) # <<>> THEN Trim(m[1].text)
            ELSE TitleFrom(elems, i + 1)

\* A list loop without its break: the last matching selector decides.
RECURSIVE TextsNoBreak(_, _, _)
TextsNoBreak(elems, selectors, i) ==
    IF i > Len(selectors) THEN <<>>
    ELSE LET m == QueryAll(elems, selectors[i])
             later == TextsNoBreak(elems, selectors, i + 1)
         IN IF Len(m) > 0 /\ later = <<>> THEN [k \in 1..Len(m) |-> Trim(m[k].text)]
            ELSE later

\* The ingredients loop and the instructions loop.
RECURSIVE TextsFrom(_, _, _)
TextsFrom(elems, selectors, i) ==
    IF i > Len(selectors) THEN <<>>
    ELSE LET m == QueryAll(elems, selectors[i])
         IN IF Len(m) > 0 THEN [k \in 1..Len(m) |-> Trim(m[k].text)]
            ELSE TextsFrom(elems, selectors, i + 1)

HtmlTitle(elems) == TitleFrom(elems, 1)
HtmlIngredients(elems) == TextsFrom(elems, ingredientSelectors, 1)
HtmlInstructions(elems) == TextsFrom(elems, instructionSelectors, 1)

StrList(l) == [k \in 1..Len(l) |-> Str(l[k])]

\* A result policy that wants both lists.
HtmlResultBothLists(t, ing, ins) ==
    IF t # <<>> /\ (Len(ing) > 0 /\ Len(ins) > 0)
    THEN Recipe(Str(t), StrList(ing), StrList(ins))
    ELSE Null

\* if (title && (ingredients.length > 0 || instructions.length > 0)) ... return null
HtmlResult(t, ing, ins) ==
    IF t # <<>> /\ (Len(ing) > 0 \/ Len(ins) > 0)
    THEN Recipe(Str(t), StrList(ing), StrList(ins))
    ELSE Null

extractHtmlRecipe(d) ==
    HtmlResult(HtmlTitle(d.elems), HtmlIngredients(d.elems), HtmlInstructions(d.elems))

---------------------------------------------------------------------------
(* parseRecipe.                                                            *)

parseRecipe(d) ==
    LET recipe == extractJsonLdRecipe(d)
    IN IF recipe = Throw THEN Throw
       ELSE IF IsRecipe(recipe) THEN recipe
       ELSE extractHtmlRecipe(d)

---------------------------------------------------------------------------
(* The records normalizeRecipe is checked on.                              *)

A == <<"a">>
B == <<"b">>

NameShapes ==
    {Absent, Null, Str(<<>>), Str(A), Num(0), Num(5), Arr(<<Str(A)>>)}

IngredientShapes ==
    {Absent, Null, Str(<<>>), Str(A), Arr(<<>>), Arr(<<Str(A), Str(B)>>),
     Num(5), Obj(EmptyObj), Arr(<<Num(5)>>)}

InstructionItems ==
    {Str(A), Str(<<" ">>), Str(<<"<", ">">>), Null, Num(5), Arr(<<>>),
     Obj([EmptyObj EXCEPT !.text = Str(A)]),
     Obj([EmptyObj EXCEPT !.name = Str(B)]),
     Obj([EmptyObj EXCEPT !.text = Num(5)]),
     Obj([EmptyObj EXCEPT !.text = Arr(<<Str(A)>>)]),
     Obj([EmptyObj EXCEPT !.type = Str(T_HowToStep)]),
     Obj([EmptyObj EXCEPT !.type = Str(T_HowToSection)]),
     Obj([EmptyObj EXCEPT !.type = Str(T_HowToSection),
                          !.itemListElement =
                              Arr(<<Str(A), Obj([EmptyObj EXCEPT !.text = Str(B)])>>)]),
     Obj([EmptyObj EXCEPT !.type = Str(T_HowToSection),
                          !.itemListElement = Arr(<<Str(A), Null>>)]),
     Obj([EmptyObj EXCEPT !.type = Str(T_HowToSection),
                          !.itemListElement = Str(A)])}

\* Texts of at most len characters, lists of at most n items, and other values.
InstructionShapes(len, n) ==
    {Absent, Null, Num(5), Obj(EmptyObj)}
    \cup {Str(s) : s \in SeqsUpTo(Chars, len)}
    \cup {Arr(l) : l \in SeqsUpTo(InstructionItems, n)}

RecipeTyped(o) == Obj([o EXCEPT !.type = Str(T_Recipe)])

RecipeData(len, items) ==
    {RecipeTyped([EmptyObj EXCEPT !.name = n, !.recipeIngredient = g,
                                  !.recipeInstructions = s]) :
        n \in NameShapes, g \in IngredientShapes, s \in InstructionShapes(len, items)}

---------------------------------------------------------------------------
(* The normalizer on its own: one call on one record.                      *)

ParseIdle ==
    /\ doc = [scripts |-> <<>>, elems |-> <<>>]
    /\ pc = "idle"
    /\ title = <<>>
    /\ ingredients = <<>>
    /\ instructions = <<>>
    /\ out = Absent

UiIdle ==
    /\ urlValue = "empty"
    /\ btnDisabled = FALSE
    /\ loadingShown = FALSE
    /\ errorShown = FALSE
    /\ cardVisible = FALSE
    /\ shownFor = "none"
    /\ pending = <<>>
    /\ lastSubmitted = "none"

InitNorm ==
    /\ data \in RecipeData(MaxLen, MaxItems)
    /\ res = Absent
    /\ ParseIdle
    /\ UiIdle

Normalize ==
    /\ res = Absent
    /\ res' = normalizeRecipe(data)
    /\ UNCHANGED <<data, parseVars, uiVars>>

NextNorm == Normalize

SpecNorm == InitNorm /\ [][NextNorm]_vars

---------------------------------------------------------------------------
(* The documents parseRecipe is checked on.                                *)

R1 ==
    RecipeTyped([EmptyObj EXCEPT !.name = Str(A),
                                 !.recipeIngredient = Arr(<<Str(A), Str(B)>>),
                                 !.recipeInstructions = Arr(<<Str(A)>>)])

R2 ==
    Obj([EmptyObj EXCEPT !.type = Arr(<<Str(<<"T">>), Str(T_Recipe)>>),
                         !.name = Str(B),
                         !.recipeInstructions = Str(<<"a", ".", " ", "b">>)])

\* A Recipe whose instruction list holds null: normalizeRecipe throws on it.
RMalformed ==
    RecipeTyped([EmptyObj EXCEPT !.name = Str(A),
                                 !.recipeInstructions = Arr(<<Null>>)])

NonRecipe == Obj([EmptyObj EXCEPT !.type = Str(<<"W">>), !.name = Str(A)])

Graph(items) == Obj([EmptyObj EXCEPT !.graph = Arr(items)])

Payloads ==
    {BadJson, Null, Num(5), Str(A), NonRecipe, R1, R2, RMalformed,
     Arr(<<>>), Arr(<<NonRecipe, R1>>), Arr(<<Null, R1>>), Arr(<<Num(5), R2, R1>>),
     Graph(<<NonRecipe, R2>>), Graph(<<NonRecipe>>)}

TitleKinds == {"h1.recipe-title", "div.recipe-name", "h1"}
ListKinds ==
    {"span[itemprop=recipeIngredient]", "ul.ingredients li", "ol.instructions li",
     "ol.directions li"}

Elem(k, x) == [kind |-> k, text |-> x]

ElemTypes ==
    {Elem(k, x) : k \in TitleKinds, x \in {<<" ">>, A, <<"b", " ">>}}
    \cup {Elem(k, x) : k \in ListKinds, x \in {A, <<" ", "b">>}}

\* Pages a script-heavy document is combined with: no markup, a page the
\* heuristics accept, a page with a title only.
SmallPages ==
    {<<>>,
     <<Elem("h1", <<"b", " ">>), Elem("ul.ingredients li", A)>>,
     <<Elem("h1", A)>>}

\* Documents of up to ns scripts over a small page, and pages of up to ne
\* elements without scripts.
Docs(ns, ne) ==
    {[scripts |-> s, elems |-> e] : s \in SeqsUpTo(Payloads, ns), e \in SmallPages}
    \cup {[scripts |-> <<>>, elems |-> e] : e \in SeqsUpTo(ElemTypes, ne)}

NormIdle ==
    /\ data = Null
    /\ res = Absent

Init ==
    /\ doc \in Docs(MaxScripts, MaxElems)
    /\ pc = "start"
    /\ title = <<>>
    /\ ingredients = <<>>
    /\ instructions = <<>>
    /\ out = Absent
    /\ NormIdle
    /\ UiIdle

\* One call of parseRecipe; pc records the return statement taken.
ParseRecipe ==
    /\ pc = "start"
    /\ LET recipe == extractJsonLdRecipe(doc)
       IN IF recipe = Throw
          THEN /\ pc' = "threw"
               /\ out' = Throw
               /\ UNCHANGED <<title, ingredients, instructions>>
          ELSE IF IsRecipe(recipe)
          THEN /\ pc' = "jsonld"
               /\ out' = recipe
               /\ UNCHANGED <<title, ingredients, instructions>>
          ELSE /\ pc' = "html"
               /\ title' = HtmlTitle(doc.elems)
               /\ ingredients' = HtmlIngredients(doc.elems)
               /\ instructions' = HtmlInstructions(doc.elems)
               /\ out' = extractHtmlRecipe(doc)
    /\ UNCHANGED <<doc, normVars, uiVars>>

Next == ParseRecipe

Spec == Init /\ [][Next]_vars

---------------------------------------------------------------------------
(* The UI handler.  urlValue stands for urlInput.value.trim(): empty, a     *)
(* text that is no URL, or one of two URLs.  cardVisible stands for the    *)
(* recipe card and the actions bar, which are shown and hidden together.   *)

Urls == {"u1", "u2"}
UrlValues == {"empty", "invalid"} \cup Urls

\* new URL(string) does not throw
isValidUrl(u) == u \in Urls

InitUI ==
    /\ UiIdle
    /\ NormIdle
    /\ ParseIdle

\* The user edits the URL field.
EditUrl ==
    /\ \E u \in UrlValues : urlValue' = u
    /\ UNCHANGED <<btnDisabled, loadingShown, errorShown, cardVisible, shownFor,
                   pending, lastSubmitted>>
    /\ UNCHANGED <<normVars, parseVars>>

\* fetchRecipe up to its first await: validation, then the reset step.
StartFetch ==
    /\ IF urlValue = "empty" \/ ~isValidUrl(urlValue)
       THEN /\ errorShown' = TRUE
            /\ UNCHANGED <<btnDisabled, loadingShown, cardVisible, pending,
                           lastSubmitted>>
       ELSE /\ Len(pending) < MaxPending
            /\ errorShown' = FALSE
            /\ loadingShown' = TRUE
            /\ cardVisible' = FALSE
            /\ btnDisabled' = TRUE
            /\ pending' = Append(pending, [url |-> urlValue, stage |-> "fetch"])
            /\ lastSubmitted' = urlValue
    /\ UNCHANGED <<urlValue, shownFor>>
    /\ UNCHANGED <<normVars, parseVars>>

\* A click on the fetch button: a disabled button dispatches no click.
ClickFetch ==
    /\ ~btnDisabled
    /\ StartFetch

\* The keypress listener of the URL field: Enter calls fetchRecipe, whatever
\* the state of the button.
PressKey ==
    \E key \in {"Enter", "a"} :
        IF key = "Enter" THEN StartFetch ELSE UNCHANGED vars

Remove(seq, i) == SubSeq(seq, 1, i - 1) \o SubSeq(seq, i + 1, Len(seq))

\* finally { hideLoading(); fetchBtn.disabled = false; }
Finally(i) ==
    /\ loadingShown' = FALSE
    /\ btnDisabled' = FALSE
    /\ pending' = Remove(pending, i)

\* fetch() resolves with an ok response: the invocation awaits response.text().
FetchResponds ==
    \E i \in 1..Len(pending) :
        /\ pending[i].stage = "fetch"
        /\ pending' = [pending EXCEPT ![i].stage = "text"]
        /\ UNCHANGED <<urlValue, btnDisabled, loadingShown, errorShown, cardVisible,
                       shownFor, lastSubmitted>>
        /\ UNCHANGED <<normVars, parseVars>>

\* fetch() or response.text() rejects, or the response is not ok: catch, finally.
FetchFails ==
    \E i \in 1..Len(pending) :
        /\ errorShown' = TRUE
        /\ Finally(i)
        /\ UNCHANGED <<urlValue, cardVisible, shownFor, lastSubmitted>>
        /\ UNCHANGED <<normVars, parseVars>>

\* response.text() resolves: parseRecipe, then displayRecipe or the error; finally.
TextArrives ==
    \E i \in 1..Len(pending), found \in BOOLEAN :
        /\ pending[i].stage = "text"
        /\ IF found
           THEN /\ shownFor' = pending[i].url
                /\ cardVisible' = TRUE
                /\ UNCHANGED errorShown
           ELSE /\ errorShown' = TRUE
                /\ UNCHANGED <<shownFor, cardVisible>>
        /\ Finally(i)
        /\ UNCHANGED <<urlValue, lastSubmitted>>
        /\ UNCHANGED <<normVars, parseVars>>

resetCard ==
    /\ urlValue' = "empty"
    /\ cardVisible' = FALSE
    /\ errorShown' = FALSE
    /\ UNCHANGED <<btnDisabled, loadingShown, shownFor, pending, lastSubmitted>>
    /\ UNCHANGED <<normVars, parseVars>>

NextUI ==
    \/ EditUrl
    \/ ClickFetch
    \/ PressKey
    \/ FetchResponds
    \/ FetchFails
    \/ TextArrives
    \/ resetCard

SpecUI == InitUI /\ [][NextUI]_vars

---------------------------------------------------------------------------
(* What the claims speak of, stated without the program's loops.           *)

Called == pc # "start"

TextOrAbsent(x) == x.t \in {"undefined", "str"}

ValidStep(x) ==
    \/ IsStr(x)
    \/ /\ x.t = "obj"
       /\ TextOrAbsent(x.v.text)
       /\ TextOrAbsent(x.v.name)
       /\ \/ x.v.itemListElement = Absent
          \/ /\ IsArr(x.v.itemListElement)
             /\ \A i \in 1..Len(x.v.itemListElement.v) :
                    LET st == x.v.itemListElement.v[i]
                    IN \/ IsStr(st)
                       \/ /\ st.t = "obj"
                          /\ TextOrAbsent(st.v.text)
                          /\ TextOrAbsent(st.v.name)

\* A Recipe-typed object whose fields have the shapes the data model names.
IsValidRecipe(p) ==
    /\ p.t = "obj"
    /\ IsRecipeType(p.v.type)
    /\ p.v.graph = Absent
    /\ TextOrAbsent(p.v.name)
    /\ \/ TextOrAbsent(p.v.recipeIngredient)
       \/ /\ IsArr(p.v.recipeIngredient)
          /\ \A i \in 1..Len(p.v.recipeIngredient.v) : IsStr(p.v.recipeIngredient.v[i])
    /\ \/ TextOrAbsent(p.v.recipeInstructions)
       \/ /\ IsArr(p.v.recipeInstructions)
          /\ \A i \in 1..Len(p.v.recipeInstructions.v) :
                 ValidStep(p.v.recipeInstructions.v[i])

IsRecipeObject(x) == x.t = "obj" /\ IsRecipeType(x.v.type)

\* The objects one block offers, in order: the items of its list or of its
\* @graph list, or the single object itself.
CandidatesOf(script) ==
    IF IsArr(script) THEN script.v
    ELSE IF script.t = "obj"
         THEN IF Truthy(script.v.graph)
              THEN (IF IsArr(script.v.graph) THEN script.v.graph.v ELSE <<script.v.graph>>)
              ELSE <<script>>
    ELSE <<>>

RECURSIVE AllCandidates(_)
AllCandidates(scripts) ==
    IF scripts = <<>> THEN <<>>
    ELSE CandidatesOf(Head(scripts)) \o AllCandidates(Tail(scripts))

RecipeCandidates(d) == SelectSeq(AllCandidates(d.scripts), IsRecipeObject)

AllSelectors ==
    {titleSelectors[i] : i \in 1..Len(titleSelectors)}
    \cup {ingredientSelectors[i] : i \in 1..Len(ingredientSelectors)}
    \cup {instructionSelectors[i] : i \in 1..Len(instructionSelectors)}

NothingMatches(d) == \A sel \in AllSelectors : QueryAll(d.elems, sel) = <<>>

\* The selectors of a list, as indices, that match at least one element.
Matching(elems, selectors) ==
    {i \in 1..Len(selectors) : QueryAll(elems, selectors[i]) # <<>>}

Least(S) == CHOOSE i \in S : \A j \in S : i <= j

\* The trimmed text of every element the highest-priority matching selector finds.
TextsOfHighest(elems, selectors) ==
    LET M == Matching(elems, selectors)
        m == QueryAll(elems, selectors[Least(M)])
    IN IF M = {} THEN <<>> ELSE [k \in 1..Len(m) |-> Trim(m[k].text)]

\* The trimmed text of the first element the highest-priority matching selector finds.
TitleOfHighest(elems) ==
    LET M == Matching(elems, titleSelectors)
    IN IF M = {} THEN <<>>
       ELSE Trim(QueryAll(elems, titleSelectors[Least(M)])[1].text)

\* The title selectors whose first element has text left after trimming.
MatchingWithText(elems) ==
    {i \in Matching(elems, titleSelectors) :
        Trim(QueryAll(elems, titleSelectors[i])[1].text) # <<>>}

TitleOfHighestWithText(elems) ==
    LET M == MatchingWithText(elems)
    IN IF M = {} THEN <<>>
       ELSE Trim(QueryAll(elems, titleSelectors[Least(M)])[1].text)

---------------------------------------------------------------------------
(* Claims about parseRecipe, under Spec.                                   *)

\* C1: when the blocks are an undecodable block followed by a block holding a
\* valid Recipe-typed object, parseRecipe returns the Recipe normalized from
\* the second block: the decode failure skips only the first block.
C1_MalformedBlockSkipped ==
    (/\ Called
     /\ Len(doc.scripts) >= 2
     /\ doc.scripts[1] = BadJson
     /\ IsValidRecipe(doc.scripts[2]))
    => (/\ pc = "jsonld"
        /\ IsRecipe(out)
        /\ out = normalizeRecipe(doc.scripts[2]))

C1_Witness ==
    /\ pc = "jsonld"
    /\ doc.scripts = <<BadJson, R2>>
    /\ out.v.title = Str(B)
    /\ Len(out.v.instructions) = 2

\* C2 as claimed: whenever some block offers a Recipe-typed object (single,
\* list item or @graph item), parseRecipe returns the normalization of the
\* first one in block order then list order, and the heuristic extractor
\* decides only when no block offers one.  (Stated for a first object that
\* normalizeRecipe accepts, so that a violation is the scan's own.)
C2_FirstRecipeWins ==
    (/\ Called
     /\ RecipeCandidates(doc) # <<>>
     /\ normalizeRecipe(RecipeCandidates(doc)[1]) # Throw)
    => (/\ pc = "jsonld"
        /\ out = normalizeRecipe(RecipeCandidates(doc)[1]))

\* C4: on a document without a Recipe-typed object the heuristic path decides:
\* a Recipe is returned exactly when the extracted title is non-empty and one
\* of the two extracted lists is non-empty, and null in every other case, in
\* particular when no selector matches anything.
C4_HeuristicResultPolicy ==
    (Called /\ RecipeCandidates(doc) = <<>>)
    => (/\ pc = "html"
        /\ IsRecipe(out) <=>
              (title # <<>> /\ (ingredients # <<>> \/ instructions # <<>>))
        /\ IsRecipe(out) =>
              out = Recipe(Str(title), StrList(ingredients), StrList(instructions))
        /\ ~IsRecipe(out) => out = Null
        /\ NothingMatches(doc) => out = Null)

C4_Witness ==
    /\ pc = "html"
    /\ doc.scripts # <<>>
    /\ RecipeCandidates(doc) = <<>>
    /\ IsRecipe(out)
    /\ ingredients # <<>>
    /\ instructions = <<>>

\* C5: parseRecipe ends with a Recipe record or null and never throws, also
\* when a block decodes to null, a scalar, a list with non-object items or a
\* Recipe-typed record of unexpected field shapes.
C5_NeverThrows ==
    Called => (/\ pc \in {"jsonld", "html"}
               /\ out # Throw
               /\ out = Null \/ IsRecipe(out))

C5_Witness ==
    /\ Called
    /\ Len(doc.scripts) = 2
    /\ doc.scripts[1] \in {Null, Num(5), Arr(<<Null, R1>>)}
    /\ doc.scripts[2] = RMalformed
    /\ out = Null

\* C7 as claimed: each field comes from the highest-priority selector that
\* matches at least one element; the title is the trimmed text of its first
\* element, a list the trimmed texts of all its elements in document order.
C7_HighestMatchingSelector ==
    pc = "html"
    => (/\ title = TitleOfHighest(doc.elems)
        /\ ingredients = TextsOfHighest(doc.elems, ingredientSelectors)
        /\ instructions = TextsOfHighest(doc.elems, instructionSelectors))

\* C7 amended: the title comes from the highest-priority selector whose first
\* matching element has text left after trimming (a selector whose first
\* element is blank is passed over); the two lists are as claimed.
C7_HighestSelectorWithText ==
    pc = "html"
    => (/\ title = TitleOfHighestWithText(doc.elems)
        /\ ingredients = TextsOfHighest(doc.elems, ingredientSelectors)
        /\ instructions = TextsOfHighest(doc.elems, instructionSelectors))

C7_Witness ==
    /\ pc = "html"
    /\ ingredients # <<>>
    /\ IsRecipe(out)
    /\ title # <<>>
    /\ title # TitleOfHighest(doc.elems)

---------------------------------------------------------------------------
(* Claims about normalizeRecipe, under SpecNorm.                           *)

Normalized == res # Absent

\* A markup tag: a "<" with a ">" somewhere after it.
HasTag(s) == \E i, j \in 1..Len(s) : i < j /\ s[i] = "<" /\ s[j] = ">"

\* A cleaned, non-empty step.
IsCleanStep(x) ==
    /\ IsStr(x)
    /\ x.v # <<>>
    /\ ~HasTag(x.v)
    /\ \A i \in 1..Len(x.v) : x.v[i] # "\n"
    /\ \A i \in 1..(Len(x.v) - 1) : ~(IsWs(x.v[i]) /\ IsWs(x.v[i + 1]))
    /\ ~IsWs(x.v[1])
    /\ ~IsWs(x.v[Len(x.v)])

\* A value that is neither a text nor a sequence of texts.
NoIngredientShape(x) ==
    /\ x # Absent
    /\ ~IsStr(x)
    /\ ~(IsArr(x) /\ \A i \in 1..Len(x.v) : IsStr(x.v[i]))

\* A value that is neither a text nor a sequence.
NoInstructionShape(x) == x # Absent /\ ~IsStr(x) /\ ~IsArr(x)

\* C3 as claimed: normalizeRecipe returns a Recipe record for every
\* Recipe-typed record, whatever the shapes of its fields, and never throws.
C3_NormalizeNeverThrows ==
    Normalized => IsRecipe(res)

\* C6 as claimed: the title of a returned Recipe is a non-empty text; it is
\* the record's name when that is a non-empty text and "Untitled Recipe" when
\* the name is absent or empty.
C6_TitleIsNonEmptyText ==
    (Normalized /\ IsRecipe(res))
    => (/\ IsStr(res.v.title)
        /\ res.v.title.v # <<>>
        /\ (IsStr(data.v.name) /\ data.v.name.v # <<>>) => res.v.title = data.v.name
        /\ data.v.name \in {Absent, Null, Str(<<>>)} => res.v.title = Str(T_Untitled))

\* C8 as claimed: every entry of the returned instructions is a non-empty
\* cleaned step (no tag, no run of whitespace, no whitespace at either end),
\* so a fragment or item that resolves to nothing does not appear.
C8_StepsCleanAndNonEmpty ==
    (Normalized /\ IsRecipe(res))
    => \A i \in 1..Len(res.v.instructions) : IsCleanStep(res.v.instructions[i])

\* C9 as claimed: a recipeIngredient of no expected shape gives an empty
\* ingredients list and a recipeInstructions of no expected shape an empty
\* instructions list, as if the field were absent, and neither raises an error.
C9_MalformedFieldAsAbsent ==
    /\ (Normalized /\ NoIngredientShape(data.v.recipeIngredient))
       => (/\ ~Truthy(data.v.recipeInstructions) => IsRecipe(res)
           /\ IsRecipe(res) => res.v.ingredients = <<>>)
    /\ (Normalized /\ NoInstructionShape(data.v.recipeInstructions))
       => (IsRecipe(res) /\ res.v.instructions = <<>>)

---------------------------------------------------------------------------
(* The claim about the UI handler, under SpecUI.                           *)

\* C10 as claimed: at most one fetchRecipe invocation is between its reset
\* step and its finally block; so while a request is pending the loading
\* indicator stays shown and the button disabled, and the recipe on display
\* once all requests are over is the one of the most recently submitted URL.
C10_SingleFlight ==
    /\ Len(pending) <= 1
    /\ pending # <<>> => (loadingShown /\ btnDisabled)
    /\ (pending = <<>> /\ cardVisible) => shownFor = lastSubmitted

====
